---- MODULE Spec2Model ----
(***************************************************************************)
(* Package strmangle (bouk/sqlboiler): the identifier case-conversion core *)
(* (TitleCase, CamelCase, TitleCaseIdentifier with the titleCaseCache and  *)
(* the scratch-buffer pool) and the helpers Placeholders, WhereClause and  *)
(* StringSliceMatch.                                                       *)
(*                                                                         *)
(* Strings are sequences of byte values (97 = 'a', 95 = '_', 46 = '.').    *)
(* Indices are kept 0-based as in the Go source; At and Slice convert.     *)
(***************************************************************************)
EXTENDS Integers, Sequences, FiniteSets, TLC

VARIABLES
    pc,             \* per goroutine: the statement it is about to execute
    op,             \* per goroutine: the exported function it called last
    arg,            \* per goroutine: the argument of that call
    result,         \* per goroutine: the value that call returned
    retpc,          \* TitleCase frame: where the frame returns to
    n,              \* TitleCase frame: parameter n
    val,            \* TitleCase frame: val of  val, ok := titleCaseCache[n]
    ok,             \* TitleCase frame: ok of the same lookup
    tbuf,           \* TitleCase frame: buf (a pool buffer id, 0 = none)
    start,          \* TitleCase frame: start cursor
    end,            \* TitleCase frame: end cursor
    ret,            \* TitleCase frame: ret
    tcret,          \* the string the last TitleCase frame returned to its caller
    obuf,           \* CamelCase / TitleCaseIdentifier / helper frame: buf
    name,           \* CamelCase frame: name after the leading-underscore strip
    lastDot,        \* TitleCaseIdentifier frame: lastDot
    nextDot,        \* TitleCaseIdentifier frame: nextDot
    addDots,        \* TitleCaseIdentifier frame: addDots
    titleCaseCache, \* the package-level map
    readers,        \* mut: goroutines holding the read lock
    writer,         \* mut: goroutine holding the exclusive lock, 0 = none
    pool,           \* buffer pool: the idle buffer instances
    bufData,        \* contents of every buffer instance
    held,           \* per goroutine: buffers acquired and not yet released
    returned        \* history: every <<n, string>> a TitleCase frame returned

vars == <<pc, op, arg, result, retpc, n, val, ok, tbuf, start, end, ret, tcret,
          obuf, name, lastDot, nextDot, addDots, titleCaseCache, readers,
          writer, pool, bufData, held, returned>>

tcVars   == <<n, val, ok, tbuf, start, end, ret, tcret, retpc>>
outVars  == <<obuf, name, lastDot, nextDot, addDots>>
callVars == <<op, arg, result>>
lockVars == <<readers, writer>>
poolVars == <<pool, bufData, held>>

----------------------------------------------------------------------------
\* Bounds of the model
MaxLen   == 4   \* longest enumerated input string of the sequential runs
MaxBufs  == 4   \* buffer instances the pool may ever create
MaxCount == 2   \* largest count given to Placeholders
MaxSlice == 2   \* longest slice given to StringSliceMatch / WhereClause

Procs == {1, 2}
Bufs  == 1..MaxBufs

----------------------------------------------------------------------------
\* Go's 0-based indexing and slicing
At(s, i)         == s[i + 1]
Slice(s, lo, hi) == SubSeq(s, lo + 1, hi)
SliceOK(s, lo, hi) == 0 <= lo /\ lo <= hi /\ hi <= Len(s)

Underscore == 95
Dot        == 46

\* strings.IndexByte
IndexByte(s, c) ==
    IF \E i \in 1..Len(s) : s[i] = c
    THEN (CHOOSE i \in 1..Len(s) : s[i] = c /\ \A j \in 1..(i - 1) : s[j] # c) - 1
    ELSE -1

uppercaseWords ==
    { <<103, 117, 105, 100>>,      \* "guid"
      <<105, 100>>,                \* "id"
      <<117, 105, 100>>,           \* "uid"
      <<117, 117, 105, 100>> }     \* "uuid"

----------------------------------------------------------------------------
\* TitleCase: the rendering of one word (strmangle.go 199-230)

\* faulty variant of IsVowel: y is not counted as a vowel
IsVowel_NoY(c) == c = 97 \/ c = 101 \/ c = 105 \/ c = 111 \/ c = 117

\* the vowel test of the word loop (97 101 105 111 117 121 = a e i o u y)
IsVowel(c) == c = 97 \/ c = 101 \/ c = 105 \/ c = 111 \/ c = 117 \/ c = 121

IsDigit(c) == c > 47 /\ c < 58

IsLower(c) == c > 96 /\ c < 123

HasVowels(word) == \E i \in 1..Len(word) : IsVowel(word[i])

\* numStart: index of the first digit of word, wordLen when there is none
NumStart(word) ==
    IF \E i \in 1..Len(word) : IsDigit(word[i])
    THEN (CHOOSE i \in 1..Len(word) :
              IsDigit(word[i]) /\ \A j \in 1..(i - 1) : ~IsDigit(word[j])) - 1
    ELSE Len(word)

ToUpperByte(c) == IF IsLower(c) THEN c - 32 ELSE c

UpperAll(word) == [i \in 1..Len(word) |-> ToUpperByte(word[i])]

\* faulty variant of RenderWord: the whole word, not word[:numStart], is looked up
RenderWord_NoPrefix(word) ==
    IF word \in uppercaseWords \/ ~HasVowels(word)
    THEN UpperAll(word)
    ELSE <<ToUpperByte(word[1])>> \o Slice(word, 1, Len(word))

\* what the body of the loop appends to buf for word; word[0] needs a
\* non-empty word on the normal path
RenderWord(word) ==
    IF Slice(word, 0, NumStart(word)) \in uppercaseWords \/ ~HasVowels(word)
    THEN UpperAll(word)
    ELSE <<ToUpperByte(word[1])>> \o Slice(word, 1, Len(word))

\* faulty variant of SkipStep: only start moves over an underscore
SkipStep_StartOnly(s, e) == <<s + 1, e>>

\* the cursors after  start++; end++
SkipStep(s, e) == <<s + 1, e + 1>>

\* both cursors after a word:  start = end + 1; end = start
AfterWord(e) == e + 1

----------------------------------------------------------------------------
\* The buffer pool (GetBuffer / PutBuffer): acquire hands out any idle
\* instance, or a newly created one when none is idle, emptied; release makes
\* the instance idle again and leaves its bytes in place, so a frame that kept
\* its pointer still reads them.

Allocated == pool \cup UNION {held[p] : p \in Procs}

CanGet(b) ==
    \/ b \in pool
    \/ /\ pool = {}
       /\ b \notin Allocated
       /\ \A c \in Bufs \ Allocated : b <= c

GetBuffer(p, b) ==
    /\ CanGet(b)
    /\ pool' = pool \ {b}
    /\ bufData' = [bufData EXCEPT ![b] = <<>>]
    /\ held' = [held EXCEPT ![p] = @ \cup {b}]

PutBuffer(p, b) ==
    /\ pool' = pool \cup {b}
    /\ held' = [held EXCEPT ![p] = @ \ {b}]

\* bufData once the frame of p that points at b is gone. When b is idle and no
\* other frame points at it, nothing reads its bytes before GetBuffer empties
\* it: they are forgotten here.
DropRef(p, b, idle) ==
    IF /\ b # 0
       /\ idle
       /\ \A q \in Procs \ {p} : tbuf[q] # b /\ obuf[q] # b
    THEN [bufData EXCEPT ![b] = <<>>]
    ELSE bufData

Write(b, s) == bufData' = [bufData EXCEPT ![b] = @ \o s]

----------------------------------------------------------------------------
\* TitleCase (strmangle.go 168-245), one action per statement group

CallTitleCase(p, s, k) ==
    /\ n' = [n EXCEPT ![p] = s]
    /\ UNCHANGED <<val, ok, tbuf, start, end, ret, tcret>>
    /\ retpc' = [retpc EXCEPT ![p] = k]
    /\ pc' = [pc EXCEPT ![p] = "tc_rlock"]

\* mut.RLock()
TC_RLock(p) ==
    /\ pc[p] = "tc_rlock"
    /\ writer = 0
    /\ readers' = readers \cup {p}
    /\ pc' = [pc EXCEPT ![p] = "tc_lookup"]
    /\ UNCHANGED <<callVars, tcVars, outVars, titleCaseCache, writer, poolVars, returned>>

\* val, ok := titleCaseCache[n]
TC_Lookup(p) ==
    /\ pc[p] = "tc_lookup"
    /\ ok' = [ok EXCEPT ![p] = n[p] \in DOMAIN titleCaseCache]
    /\ val' = [val EXCEPT ![p] =
                  IF n[p] \in DOMAIN titleCaseCache THEN titleCaseCache[n[p]] ELSE <<>>]
    /\ pc' = [pc EXCEPT ![p] = "tc_runlock"]
    /\ UNCHANGED <<callVars, n, tbuf, start, end, ret, tcret, retpc, outVars,
                   titleCaseCache, lockVars, poolVars, returned>>

\* mut.RUnlock(); if ok { ... }
TC_RUnlock(p) ==
    /\ pc[p] = "tc_runlock"
    /\ readers' = readers \ {p}
    /\ pc' = [pc EXCEPT ![p] = IF ok[p] THEN "tc_hit" ELSE "tc_get"]
    /\ UNCHANGED <<callVars, tcVars, outVars, titleCaseCache, writer, poolVars, returned>>

\* the frame's locals die when it returns
PopFrame(p) ==
    /\ n' = [n EXCEPT ![p] = <<>>]
    /\ val' = [val EXCEPT ![p] = <<>>]
    /\ ok' = [ok EXCEPT ![p] = FALSE]
    /\ tbuf' = [tbuf EXCEPT ![p] = 0]
    /\ start' = [start EXCEPT ![p] = 0]
    /\ end' = [end EXCEPT ![p] = 0]
    /\ ret' = [ret EXCEPT ![p] = <<>>]
    /\ retpc' = [retpc EXCEPT ![p] = "none"]

\* return val
TC_ReturnHit(p) ==
    /\ pc[p] = "tc_hit"
    /\ tcret' = [tcret EXCEPT ![p] = val[p]]
    /\ returned' = returned \cup {<<n[p], val[p]>>}
    /\ pc' = [pc EXCEPT ![p] = retpc[p]]
    /\ PopFrame(p)
    /\ bufData' = DropRef(p, tbuf[p], tbuf[p] \in pool)
    /\ UNCHANGED <<callVars, outVars, titleCaseCache, lockVars, pool, held>>

\* buf := GetBuffer(); start := 0; end := 0
TC_GetBuffer(p) ==
    /\ pc[p] = "tc_get"
    /\ \E b \in Bufs :
          /\ GetBuffer(p, b)
          /\ tbuf' = [tbuf EXCEPT ![p] = b]
    /\ pc' = [pc EXCEPT ![p] = "tc_scan"]
    /\ UNCHANGED <<callVars, n, val, ok, start, end, ret, tcret, retpc, outVars,
                   titleCaseCache, lockVars, returned>>

\* loop body, first branch: name[start] == '_'
TC_Skip(p) ==
    /\ pc[p] = "tc_scan"
    /\ start[p] < Len(n[p])
    /\ end[p] < Len(n[p])
    /\ At(n[p], start[p]) = Underscore
    /\ start' = [start EXCEPT ![p] = SkipStep(start[p], end[p])[1]]
    /\ end' = [end EXCEPT ![p] = SkipStep(start[p], end[p])[2]]
    /\ UNCHANGED <<pc, callVars, n, val, ok, tbuf, ret, tcret, retpc, outVars,
                   titleCaseCache, lockVars, poolVars, returned>>

\* loop body, second branch: name[end] != '_'
TC_Advance(p) ==
    /\ pc[p] = "tc_scan"
    /\ start[p] < Len(n[p])
    /\ end[p] < Len(n[p])
    /\ At(n[p], start[p]) # Underscore
    /\ At(n[p], end[p]) # Underscore
    /\ end' = [end EXCEPT ![p] = end[p] + 1]
    /\ UNCHANGED <<pc, callVars, n, val, ok, tbuf, start, ret, tcret, retpc, outVars,
                   titleCaseCache, lockVars, poolVars, returned>>

\* the state in which the loop body falls through to  word := name[start:end]
AtWord(p) ==
    /\ pc[p] = "tc_scan"
    /\ start[p] < Len(n[p])
    /\ ~(/\ end[p] < Len(n[p])
         /\ \/ At(n[p], start[p]) = Underscore
            \/ At(n[p], end[p]) # Underscore)

\* word := name[start:end]; render it into buf; start = end + 1; end = start
TC_Word(p) ==
    /\ AtWord(p)
    /\ IF SliceOK(n[p], start[p], end[p])
       THEN /\ Write(tbuf[p], RenderWord(Slice(n[p], start[p], end[p])))
            /\ start' = [start EXCEPT ![p] = AfterWord(end[p])]
            /\ end' = [end EXCEPT ![p] = AfterWord(end[p])]
            /\ UNCHANGED pc
       ELSE /\ pc' = [pc EXCEPT ![p] = "panic"]
            /\ UNCHANGED <<start, end, bufData>>
    /\ UNCHANGED <<callVars, n, val, ok, tbuf, ret, tcret, retpc, outVars,
                   titleCaseCache, lockVars, pool, held, returned>>

\* loop exit; ret := buf.String()
TC_String(p) ==
    /\ pc[p] = "tc_scan"
    /\ ~(start[p] < Len(n[p]))
    /\ ret' = [ret EXCEPT ![p] = bufData[tbuf[p]]]
    /\ pc' = [pc EXCEPT ![p] = "tc_put"]
    /\ UNCHANGED <<callVars, n, val, ok, tbuf, start, end, tcret, retpc, outVars,
                   titleCaseCache, lockVars, poolVars, returned>>

\* PutBuffer(buf)
TC_PutBuffer(p) ==
    /\ pc[p] = "tc_put"
    /\ PutBuffer(p, tbuf[p])
    /\ pc' = [pc EXCEPT ![p] = "tc_lock"]
    /\ UNCHANGED <<callVars, tcVars, outVars, titleCaseCache, lockVars, bufData, returned>>

\* faulty variant of TC_Lock: the read lock is taken for the write
TC_Lock_AsRLock(p) ==
    /\ pc[p] = "tc_lock"
    /\ writer = 0
    /\ readers' = readers \cup {p}
    /\ pc' = [pc EXCEPT ![p] = "tc_store"]
    /\ UNCHANGED <<callVars, tcVars, outVars, titleCaseCache, writer, poolVars, returned>>

\* mut.Lock()
TC_Lock(p) ==
    /\ pc[p] = "tc_lock"
    /\ writer = 0
    /\ readers = {}
    /\ writer' = p
    /\ pc' = [pc EXCEPT ![p] = "tc_store"]
    /\ UNCHANGED <<callVars, tcVars, outVars, titleCaseCache, readers, poolVars, returned>>

MapPut(m, k, v) == [x \in DOMAIN m \cup {k} |-> IF x = k THEN v ELSE m[x]]

\* faulty variant of TC_Store: the released buffer is read again for the value
TC_Store_FromBuf(p) ==
    /\ pc[p] = "tc_store"
    /\ titleCaseCache' = MapPut(titleCaseCache, n[p], bufData[tbuf[p]])
    /\ pc' = [pc EXCEPT ![p] = "tc_unlock"]
    /\ UNCHANGED <<callVars, tcVars, outVars, lockVars, poolVars, returned>>

\* titleCaseCache[n] = ret
TC_Store(p) ==
    /\ pc[p] = "tc_store"
    /\ titleCaseCache' = MapPut(titleCaseCache, n[p], ret[p])
    /\ pc' = [pc EXCEPT ![p] = "tc_unlock"]
    /\ UNCHANGED <<callVars, tcVars, outVars, lockVars, poolVars, returned>>

\* mut.Unlock()
TC_Unlock(p) ==
    /\ pc[p] = "tc_unlock"
    /\ writer' = 0
    /\ pc' = [pc EXCEPT ![p] = "tc_ret"]
    /\ UNCHANGED <<callVars, tcVars, outVars, titleCaseCache, readers, poolVars, returned>>

\* return ret
TC_ReturnMiss(p) ==
    /\ pc[p] = "tc_ret"
    /\ tcret' = [tcret EXCEPT ![p] = ret[p]]
    /\ returned' = returned \cup {<<n[p], ret[p]>>}
    /\ pc' = [pc EXCEPT ![p] = retpc[p]]
    /\ PopFrame(p)
    /\ bufData' = DropRef(p, tbuf[p], tbuf[p] \in pool)
    /\ UNCHANGED <<callVars, outVars, titleCaseCache, lockVars, pool, held>>

\* the exported call (or TitleCaseIdentifier's  return TitleCase(id))  returns
ReturnTop(p) ==
    /\ pc[p] = "ret_top"
    /\ result' = [result EXCEPT ![p] = tcret[p]]
    /\ pc' = [pc EXCEPT ![p] = "idle"]
    /\ UNCHANGED <<op, arg, tcVars, outVars, titleCaseCache, lockVars, poolVars, returned>>

----------------------------------------------------------------------------
\* CamelCase (strmangle.go 251-285)

\* faulty variant of FirstNonUnderscore: leading underscores are not skipped
FirstNonUnderscore_NoStrip(s) == IF Len(s) = 0 THEN -1 ELSE 0

\* first loop: index of the first byte that is not '_', -1 when there is none
FirstNonUnderscore(s) ==
    IF \E i \in 1..Len(s) : s[i] # Underscore
    THEN (CHOOSE i \in 1..Len(s) :
              s[i] # Underscore /\ \A j \in 1..(i - 1) : s[j] = Underscore) - 1
    ELSE -1

PopOuter(p) ==
    /\ obuf' = [obuf EXCEPT ![p] = 0]
    /\ name' = [name EXCEPT ![p] = <<>>]
    /\ lastDot' = [lastDot EXCEPT ![p] = 0]
    /\ nextDot' = [nextDot EXCEPT ![p] = 0]
    /\ addDots' = [addDots EXCEPT ![p] = FALSE]

\* buf := GetBuffer(); defer PutBuffer(buf)
CC_GetBuffer(p) ==
    /\ pc[p] = "cc_get"
    /\ \E b \in Bufs :
          /\ GetBuffer(p, b)
          /\ obuf' = [obuf EXCEPT ![p] = b]
    /\ pc' = [pc EXCEPT ![p] = "cc_strip"]
    /\ UNCHANGED <<callVars, tcVars, name, lastDot, nextDot, addDots,
                   titleCaseCache, lockVars, returned>>

\* strip the leading underscores, or  return ""  (the deferred release follows)
CC_Strip(p) ==
    /\ pc[p] = "cc_strip"
    /\ LET index == FirstNonUnderscore(arg[p]) IN
         IF index # -1
         THEN /\ name' = [name EXCEPT ![p] = Slice(arg[p], index, Len(arg[p]))]
              /\ pc' = [pc EXCEPT ![p] = "cc_split"]
              /\ UNCHANGED result
         ELSE /\ result' = [result EXCEPT ![p] = <<>>]
              /\ pc' = [pc EXCEPT ![p] = "cc_put"]
              /\ UNCHANGED name
    /\ UNCHANGED <<op, arg, tcVars, obuf, lastDot, nextDot, addDots,
                   titleCaseCache, lockVars, poolVars, returned>>

\* second loop and  buf.WriteString(name)  when name has no underscore
CC_Whole(p) ==
    /\ pc[p] = "cc_split"
    /\ IndexByte(name[p], Underscore) = -1
    /\ Write(obuf[p], name[p])
    /\ pc' = [pc EXCEPT ![p] = "cc_string"]
    /\ UNCHANGED <<callVars, tcVars, outVars, titleCaseCache, lockVars, pool, held, returned>>

\* second loop,  buf.WriteString(name[:index])  and the call TitleCase(name[index+1:])
CC_Split(p) ==
    /\ pc[p] = "cc_split"
    /\ LET index == IndexByte(name[p], Underscore) IN
         /\ index # -1
         /\ Write(obuf[p], Slice(name[p], 0, index))
         /\ IF SliceOK(name[p], index + 1, Len(name[p]))
            THEN CallTitleCase(p, Slice(name[p], index + 1, Len(name[p])), "cc_append")
            ELSE /\ pc' = [pc EXCEPT ![p] = "panic"]
                 /\ UNCHANGED tcVars
    /\ UNCHANGED <<callVars, outVars, titleCaseCache, lockVars, pool, held, returned>>

\* buf.WriteString(<the string TitleCase returned>)
CC_Append(p) ==
    /\ pc[p] = "cc_append"
    /\ Write(obuf[p], tcret[p])
    /\ pc' = [pc EXCEPT ![p] = "cc_string"]
    /\ UNCHANGED <<callVars, tcVars, outVars, titleCaseCache, lockVars, pool, held, returned>>

\* return buf.String()
CC_String(p) ==
    /\ pc[p] = "cc_string"
    /\ result' = [result EXCEPT ![p] = bufData[obuf[p]]]
    /\ pc' = [pc EXCEPT ![p] = "cc_put"]
    /\ UNCHANGED <<op, arg, tcVars, outVars, titleCaseCache, lockVars, poolVars, returned>>

\* the deferred PutBuffer(buf), then the call is over
CC_PutBuffer(p) ==
    /\ pc[p] = "cc_put"
    /\ PutBuffer(p, obuf[p])
    /\ bufData' = DropRef(p, obuf[p], TRUE)
    /\ PopOuter(p)
    /\ pc' = [pc EXCEPT ![p] = "idle"]
    /\ UNCHANGED <<callVars, tcVars, titleCaseCache, lockVars, returned>>

----------------------------------------------------------------------------
\* TitleCaseIdentifier (strmangle.go 289-326); the fmt.Println of the loop
\* writes to standard output only and is left out

\* nextDot := strings.IndexByte(id, '.'); if nextDot < 0 { return TitleCase(id) }
TCI_NoDot(p) ==
    /\ pc[p] = "tci_entry"
    /\ IndexByte(arg[p], Dot) < 0
    /\ CallTitleCase(p, arg[p], "ret_top")
    /\ UNCHANGED <<callVars, outVars, titleCaseCache, lockVars, poolVars, returned>>

TCI_Dotted(p) ==
    /\ pc[p] = "tci_entry"
    /\ IndexByte(arg[p], Dot) >= 0
    /\ nextDot' = [nextDot EXCEPT ![p] = IndexByte(arg[p], Dot)]
    /\ pc' = [pc EXCEPT ![p] = "tci_get"]
    /\ UNCHANGED <<callVars, tcVars, obuf, name, lastDot, addDots,
                   titleCaseCache, lockVars, poolVars, returned>>

\* buf := GetBuffer(); lastDot := 0; addDots := false
TCI_GetBuffer(p) ==
    /\ pc[p] = "tci_get"
    /\ \E b \in Bufs :
          /\ GetBuffer(p, b)
          /\ obuf' = [obuf EXCEPT ![p] = b]
    /\ lastDot' = [lastDot EXCEPT ![p] = 0]
    /\ addDots' = [addDots EXCEPT ![p] = FALSE]
    /\ pc' = [pc EXCEPT ![p] = "tci_loop"]
    /\ UNCHANGED <<callVars, tcVars, name, nextDot, titleCaseCache, lockVars, returned>>

\* loop test; fragment := id[lastDot:nextDot]; the call TitleCase(fragment)
TCI_Loop(p) ==
    /\ pc[p] = "tci_loop"
    /\ IF nextDot[p] >= 0
       THEN IF SliceOK(arg[p], lastDot[p], nextDot[p])
            THEN CallTitleCase(p, Slice(arg[p], lastDot[p], nextDot[p]), "tci_write")
            ELSE /\ pc' = [pc EXCEPT ![p] = "panic"]
                 /\ UNCHANGED tcVars
       ELSE /\ pc' = [pc EXCEPT ![p] = "tci_put"]
            /\ UNCHANGED tcVars
    /\ UNCHANGED <<callVars, outVars, titleCaseCache, lockVars, poolVars, returned>>

\* nextDot after  lastDot = nextDot + 1 : the next '.' of id, ln when none is left
NextDotFrom(id, last) ==
    IF IndexByte(Slice(id, last, Len(id)), Dot) >= 0
    THEN IndexByte(Slice(id, last, Len(id)), Dot) + last
    ELSE Len(id)

\* write the separator and titled; break when nextDot == ln, else move on
TCI_Write(p) ==
    /\ pc[p] = "tci_write"
    /\ Write(obuf[p], (IF addDots[p] THEN <<Dot>> ELSE <<>>) \o tcret[p])
    /\ addDots' = [addDots EXCEPT ![p] = TRUE]
    /\ IF nextDot[p] = Len(arg[p])
       THEN /\ pc' = [pc EXCEPT ![p] = "tci_put"]
            /\ UNCHANGED <<lastDot, nextDot>>
       ELSE IF SliceOK(arg[p], nextDot[p] + 1, Len(arg[p]))
            THEN /\ lastDot' = [lastDot EXCEPT ![p] = nextDot[p] + 1]
                 /\ nextDot' = [nextDot EXCEPT ![p] = NextDotFrom(arg[p], nextDot[p] + 1)]
                 /\ pc' = [pc EXCEPT ![p] = "tci_loop"]
            ELSE /\ pc' = [pc EXCEPT ![p] = "panic"]
                 /\ UNCHANGED <<lastDot, nextDot>>
    /\ UNCHANGED <<callVars, tcVars, obuf, name, titleCaseCache, lockVars, pool, held, returned>>

\* PutBuffer(buf)
TCI_PutBuffer(p) ==
    /\ pc[p] = "tci_put"
    /\ PutBuffer(p, obuf[p])
    /\ pc' = [pc EXCEPT ![p] = "tci_string"]
    /\ UNCHANGED <<callVars, tcVars, outVars, titleCaseCache, lockVars, bufData, returned>>

\* return buf.String()  -- read after the release
TCI_String(p) ==
    /\ pc[p] = "tci_string"
    /\ result' = [result EXCEPT ![p] = bufData[obuf[p]]]
    /\ bufData' = DropRef(p, obuf[p], obuf[p] \in pool)
    /\ PopOuter(p)
    /\ pc' = [pc EXCEPT ![p] = "idle"]
    /\ UNCHANGED <<op, arg, tcVars, titleCaseCache, lockVars, pool, held, returned>>

----------------------------------------------------------------------------
\* The callers

\* calls the goroutines of the concurrent specification make
CoreCalls ==
    { <<"TitleCase", <<95, 98>>>>,                       \* "_b"
      <<"CamelCase", <<97, 95, 95, 98>>>>,               \* "a__b"
      <<"CamelCase", <<98>>>>,                           \* "b"
      <<"TitleCaseIdentifier", <<95, 98>>>>,             \* "_b"
      <<"TitleCaseIdentifier", <<95, 98, 46>>>> }        \* "_b."

Call(p) ==
    /\ pc[p] = "idle"
    /\ \E c \in CoreCalls :
          /\ op' = [op EXCEPT ![p] = c[1]]
          /\ arg' = [arg EXCEPT ![p] = c[2]]
          /\ IF c[1] = "TitleCase"
             THEN CallTitleCase(p, c[2], "ret_top")
             ELSE /\ pc' = [pc EXCEPT ![p] =
                               IF c[1] = "CamelCase" THEN "cc_get" ELSE "tci_entry"]
                  /\ UNCHANGED tcVars
    /\ result' = [result EXCEPT ![p] = <<>>]
    /\ UNCHANGED <<outVars, titleCaseCache, lockVars, poolVars, returned>>

CoreStep(p) ==
    \/ TC_RLock(p) \/ TC_Lookup(p) \/ TC_RUnlock(p) \/ TC_ReturnHit(p)
    \/ TC_GetBuffer(p) \/ TC_Skip(p) \/ TC_Advance(p) \/ TC_Word(p)
    \/ TC_String(p) \/ TC_PutBuffer(p) \/ TC_Lock(p) \/ TC_Store(p)
    \/ TC_Unlock(p) \/ TC_ReturnMiss(p) \/ ReturnTop(p)
    \/ CC_GetBuffer(p) \/ CC_Strip(p) \/ CC_Whole(p) \/ CC_Split(p)
    \/ CC_Append(p) \/ CC_String(p) \/ CC_PutBuffer(p)
    \/ TCI_NoDot(p) \/ TCI_Dotted(p) \/ TCI_GetBuffer(p) \/ TCI_Loop(p)
    \/ TCI_Write(p) \/ TCI_PutBuffer(p) \/ TCI_String(p)

\* the state after package initialisation, apart from what the goroutines do
InitShared ==
    /\ result = [p \in Procs |-> <<>>]
    /\ val = [p \in Procs |-> <<>>]
    /\ ok = [p \in Procs |-> FALSE]
    /\ tbuf = [p \in Procs |-> 0]
    /\ start = [p \in Procs |-> 0]
    /\ end = [p \in Procs |-> 0]
    /\ ret = [p \in Procs |-> <<>>]
    /\ tcret = [p \in Procs |-> <<>>]
    /\ obuf = [p \in Procs |-> 0]
    /\ name = [p \in Procs |-> <<>>]
    /\ lastDot = [p \in Procs |-> 0]
    /\ nextDot = [p \in Procs |-> 0]
    /\ addDots = [p \in Procs |-> FALSE]
    /\ titleCaseCache = <<>>
    /\ readers = {}
    /\ writer = 0
    /\ pool = {}
    /\ bufData = [b \in Bufs |-> <<>>]
    /\ held = [p \in Procs |-> {}]
    /\ returned = {}

\* concurrent goroutines calling the three exported functions again and again
Init ==
    /\ InitShared
    /\ pc = [p \in Procs |-> "idle"]
    /\ op = [p \in Procs |-> "none"]
    /\ arg = [p \in Procs |-> <<>>]
    /\ n = [p \in Procs |-> <<>>]
    /\ retpc = [p \in Procs |-> "none"]

Next == \E p \in Procs : Call(p) \/ CoreStep(p)

Spec == Init /\ [][Next]_vars

----------------------------------------------------------------------------
\* One call on a fresh package, for every input of a bounded set

PureAlphabet == {105, 100, 57, Underscore, Dot}     \* i d 9 _ .

Strs(A, k) == UNION {[1..m -> A] : m \in 0..k}

PureExamples ==
    { <<99, 111, 108, 117, 109, 110, 95, 110, 97, 109, 101, 95, 105, 100>>, \* column_name_id
      <<117, 117, 105, 100>>,                                   \* uuid
      <<112, 101, 114, 115, 111, 110>>,                         \* person
      <<120, 121, 122>>,                                        \* xyz
      <<118, 97, 114, 95, 110, 97, 109, 101, 95, 105, 100>>,    \* var_name_id
      <<95, 95, 95>>,                                           \* ___
      <<110, 111, 85, 110, 100, 101, 114, 115, 99, 111, 114, 101>>, \* noUnderscore
      <<97, 46, 98, 46, 99>>,                                   \* a.b.c
      <<97, 46, 42>>,                                           \* a.*
      <<103, 117, 105, 100, 57, 101, 57>> }                     \* guid9e9

PureInputs == Strs(PureAlphabet, MaxLen) \cup PureExamples

PureOps == {"TitleCase", "CamelCase", "TitleCaseIdentifier"}

InitPure ==
    /\ InitShared
    /\ \E o \in PureOps, a \in PureInputs :
          /\ op = [p \in Procs |-> IF p = 1 THEN o ELSE "none"]
          /\ arg = [p \in Procs |-> IF p = 1 THEN a ELSE <<>>]
          /\ pc = [p \in Procs |->
                      IF p # 1 THEN "idle"
                      ELSE IF o = "TitleCase" THEN "tc_rlock"
                      ELSE IF o = "CamelCase" THEN "cc_get" ELSE "tci_entry"]
          /\ n = [p \in Procs |-> IF p = 1 /\ o = "TitleCase" THEN a ELSE <<>>]
          /\ retpc = [p \in Procs |-> IF p = 1 /\ o = "TitleCase" THEN "ret_top" ELSE "none"]

NextPure == \E p \in Procs : CoreStep(p)

SpecPure == InitPure /\ [][NextPure]_vars

FairSpecPure == SpecPure /\ WF_vars(NextPure)

----------------------------------------------------------------------------
\* Placeholders (strmangle.go 372-398) and WhereClause (strmangle.go 419-435)

RECURSIVE Digits(_)
Digits(k) == IF k < 10 THEN <<48 + k>> ELSE Digits(k \div 10) \o <<48 + (k % 10)>>

\* fmt.Sprintf("%d", k)
Decimal(k) == IF k < 0 THEN <<45>> \o Digits(-k) ELSE Digits(k)

\* what the loop of Placeholders writes for i = from .. count-1
RECURSIVE PlaceholderItems(_, _, _, _)
PlaceholderItems(from, count, first, group) ==
    IF from >= count THEN <<>>
    ELSE (IF from # 0
          THEN IF group > 1 /\ from % group = 0 THEN <<41, 44, 40>> ELSE <<44>>
          ELSE <<>>)
         \o <<36>> \o Decimal(first + from)
         \o PlaceholderItems(from + 1, count, first, group)

PlaceholdersText(count, first, group) ==
    (IF group > 1 THEN <<40>> ELSE <<>>)
    \o PlaceholderItems(0, count, first, group)
    \o (IF group > 1 THEN <<41>> ELSE <<>>)

\* what the loop of WhereClause writes for i = from .. len(cols)-1
RECURSIVE WhereItems(_, _, _)
WhereItems(from, first, cols) ==
    IF from >= Len(cols) THEN <<>>
    ELSE <<34>> \o cols[from + 1] \o <<34, 61, 36>> \o Decimal(first + from)
         \o (IF from < Len(cols) - 1 THEN <<32, 65, 78, 68, 32>> ELSE <<>>)
         \o WhereItems(from + 1, first, cols)

helperIdle == <<tcVars, name, lastDot, nextDot, addDots, titleCaseCache, lockVars, returned>>

\* Placeholders: buf := GetBuffer(); defer PutBuffer(buf)
PH_GetBuffer(p) ==
    /\ pc[p] = "ph_get"
    /\ \E b \in Bufs :
          /\ GetBuffer(p, b)
          /\ obuf' = [obuf EXCEPT ![p] = b]
    /\ pc' = [pc EXCEPT ![p] = "ph_check"]
    /\ UNCHANGED <<callVars, helperIdle>>

\* if start == 0 || group == 0 { panic(...) }
PH_Panic(p) ==
    /\ pc[p] = "ph_check"
    /\ arg[p].start = 0 \/ arg[p].group = 0
    /\ pc' = [pc EXCEPT ![p] = "ph_unwind"]
    /\ UNCHANGED <<callVars, obuf, helperIdle, poolVars>>

\* the deferred PutBuffer(buf) runs while the panic unwinds; the goroutine aborts
PH_Unwind(p) ==
    /\ pc[p] = "ph_unwind"
    /\ PutBuffer(p, obuf[p])
    /\ bufData' = DropRef(p, obuf[p], TRUE)
    /\ obuf' = [obuf EXCEPT ![p] = 0]
    /\ pc' = [pc EXCEPT ![p] = "aborted"]
    /\ UNCHANGED <<callVars, helperIdle>>

\* the writes of Placeholders
PH_Build(p) ==
    /\ pc[p] = "ph_check"
    /\ ~(arg[p].start = 0 \/ arg[p].group = 0)
    /\ Write(obuf[p], PlaceholdersText(arg[p].count, arg[p].start, arg[p].group))
    /\ pc' = [pc EXCEPT ![p] = "h_string"]
    /\ UNCHANGED <<callVars, obuf, helperIdle, pool, held>>

\* WhereClause: if start == 0 { panic(...) }
WC_Panic(p) ==
    /\ pc[p] = "wc_check"
    /\ arg[p].start = 0
    /\ pc' = [pc EXCEPT ![p] = "aborted"]
    /\ UNCHANGED <<callVars, obuf, helperIdle, poolVars>>

\* buf := GetBuffer(); defer PutBuffer(buf)
WC_GetBuffer(p) ==
    /\ pc[p] = "wc_check"
    /\ arg[p].start # 0
    /\ \E b \in Bufs :
          /\ GetBuffer(p, b)
          /\ obuf' = [obuf EXCEPT ![p] = b]
    /\ pc' = [pc EXCEPT ![p] = "wc_build"]
    /\ UNCHANGED <<callVars, helperIdle>>

\* the writes of WhereClause
WC_Build(p) ==
    /\ pc[p] = "wc_build"
    /\ Write(obuf[p], WhereItems(0, arg[p].start, arg[p].cols))
    /\ pc' = [pc EXCEPT ![p] = "h_string"]
    /\ UNCHANGED <<callVars, obuf, helperIdle, pool, held>>

\* return buf.String()
H_String(p) ==
    /\ pc[p] = "h_string"
    /\ result' = [result EXCEPT ![p] = bufData[obuf[p]]]
    /\ pc' = [pc EXCEPT ![p] = "h_put"]
    /\ UNCHANGED <<op, arg, obuf, helperIdle, poolVars>>

\* the deferred PutBuffer(buf), then the call is over
H_PutBuffer(p) ==
    /\ pc[p] = "h_put"
    /\ PutBuffer(p, obuf[p])
    /\ bufData' = DropRef(p, obuf[p], TRUE)
    /\ obuf' = [obuf EXCEPT ![p] = 0]
    /\ pc' = [pc EXCEPT ![p] = "idle"]
    /\ UNCHANGED <<callVars, helperIdle>>

----------------------------------------------------------------------------
\* StringSliceMatch (strmangle.go 457-476)

StringSliceMatch(a, b) ==
    IF Len(a) # Len(b) THEN FALSE
    ELSE \A i \in 1..Len(a) : \E j \in 1..Len(b) : b[j] = a[i]

SSM_Run(p) ==
    /\ pc[p] = "ssm"
    /\ result' = [result EXCEPT ![p] = StringSliceMatch(arg[p].a, arg[p].b)]
    /\ pc' = [pc EXCEPT ![p] = "idle"]
    /\ UNCHANGED <<op, arg, obuf, helperIdle, poolVars>>

----------------------------------------------------------------------------
\* One helper call on a fresh package, for every argument of a bounded set

Starts  == -2..2
Groups  == -1..2
Columns == { <<120>>, <<121>> }                     \* "x", "y"
Slices  == Strs(Columns, MaxSlice)

HelperCalls ==
    { <<"Placeholders", [count |-> c, start |-> s, group |-> g]>> :
          c \in 0..MaxCount, s \in Starts, g \in Groups }
    \cup { <<"WhereClause", [start |-> s, cols |-> cs]>> : s \in Starts, cs \in Slices }
    \cup { <<"StringSliceMatch", [a |-> x, b |-> y]>> : x \in Slices, y \in Slices }

InitHelpers ==
    /\ InitShared
    /\ n = [p \in Procs |-> <<>>]
    /\ retpc = [p \in Procs |-> "none"]
    /\ \E c \in HelperCalls :
          /\ op = [p \in Procs |-> IF p = 1 THEN c[1] ELSE "none"]
          /\ arg = [p \in Procs |-> IF p = 1 THEN c[2] ELSE <<>>]
          /\ pc = [p \in Procs |->
                      IF p # 1 THEN "idle"
                      ELSE IF c[1] = "Placeholders" THEN "ph_get"
                      ELSE IF c[1] = "WhereClause" THEN "wc_check" ELSE "ssm"]

NextHelpers ==
    \E p \in Procs :
        \/ PH_GetBuffer(p) \/ PH_Panic(p) \/ PH_Unwind(p) \/ PH_Build(p)
        \/ WC_Panic(p) \/ WC_GetBuffer(p) \/ WC_Build(p)
        \/ H_String(p) \/ H_PutBuffer(p) \/ SSM_Run(p)

SpecHelpers == InitHelpers /\ [][NextHelpers]_vars

----------------------------------------------------------------------------
\* Reference definitions the properties are stated with

RefClass == (97..122) \cup (48..57) \cup {95}       \* a-z, 0-9, _

InClass(s) == \A i \in 1..Len(s) : s[i] \in RefClass

RefVowels == {97, 101, 105, 111, 117, 121}          \* a e i o u y

RefTokens == { <<105, 100>>, <<117, 105, 100>>, <<103, 117, 105, 100>>,
               <<117, 117, 105, 100>> }             \* id uid guid uuid

RefUpper(c) == IF c \in 97..122 THEN c - 32 ELSE c

\* the longest prefix of s holding no byte of the set stop
RECURSIVE TakeUntil(_, _)
TakeUntil(s, stop) ==
    IF s = <<>> \/ Head(s) \in stop THEN <<>>
    ELSE <<Head(s)>> \o TakeUntil(Tail(s), stop)

\* the maximal runs of s holding no byte sep, left to right, empty runs dropped
RECURSIVE RefRuns(_, _)
RefRuns(s, sep) ==
    IF s = <<>> THEN <<>>
    ELSE IF Head(s) = sep THEN RefRuns(Tail(s), sep)
    ELSE LET run == TakeUntil(s, {sep})
         IN  <<run>> \o RefRuns(SubSeq(s, Len(run) + 1, Len(s)), sep)

\* s split at every sep, empty fragments kept (strings.Split)
RECURSIVE RefSplit(_, _)
RefSplit(s, sep) ==
    LET frag == TakeUntil(s, {sep})
    IN  IF Len(frag) = Len(s) THEN <<frag>>
        ELSE <<frag>> \o RefSplit(SubSeq(s, Len(frag) + 2, Len(s)), sep)

RefRender(run) ==
    IF TakeUntil(run, 48..57) \in RefTokens \/ \A i \in 1..Len(run) : run[i] \notin RefVowels
    THEN [i \in 1..Len(run) |-> RefUpper(run[i])]
    ELSE [i \in 1..Len(run) |-> IF i = 1 THEN RefUpper(run[i]) ELSE run[i]]

RECURSIVE RefConcat(_)
RefConcat(ws) == IF ws = <<>> THEN <<>> ELSE Head(ws) \o RefConcat(Tail(ws))

RefTitleCase(s) ==
    LET runs == RefRuns(s, 95)
    IN  RefConcat([i \in 1..Len(runs) |-> RefRender(runs[i])])

RECURSIVE RefJoin(_, _)
RefJoin(ws, sep) ==
    IF Len(ws) = 0 THEN <<>>
    ELSE IF Len(ws) = 1 THEN ws[1]
    ELSE ws[1] \o <<sep>> \o RefJoin(Tail(ws), sep)

RefTitleCaseIdentifier(s) ==
    LET frags == RefSplit(s, 46)
    IN  RefJoin([i \in 1..Len(frags) |-> RefTitleCase(frags[i])], 46)

RECURSIVE RefStrip(_)
RefStrip(s) == IF s # <<>> /\ Head(s) = 95 THEN RefStrip(Tail(s)) ELSE s

----------------------------------------------------------------------------
\* C1: a TitleCase call that misses the cache returns, for an input over
\* a-z, 0-9 and '_', the concatenation of the renderings of its maximal
\* non-underscore runs: a run is fully uppercased when its part before the
\* first digit is one of id, uid, guid, uuid or it holds no vowel, otherwise
\* only its first byte is uppercased; with the examples of the specification.
C1_TitleCaseRendering ==
    \A p \in Procs :
        pc[p] = "tc_ret" /\ InClass(n[p]) =>
            /\ ret[p] = RefTitleCase(n[p])
            /\ n[p] = <<99, 111, 108, 117, 109, 110, 95, 110, 97, 109, 101, 95, 105, 100>>
                  => ret[p] = <<67, 111, 108, 117, 109, 110, 78, 97, 109, 101, 73, 68>>
            /\ n[p] = <<117, 117, 105, 100>> => ret[p] = <<85, 85, 73, 68>>
            /\ n[p] = <<112, 101, 114, 115, 111, 110>> => ret[p] = <<80, 101, 114, 115, 111, 110>>
            /\ (n[p] = <<>> \/ \A i \in 1..Len(n[p]) : n[p][i] = 95) => ret[p] = <<>>

\* a miss on "column_name_id" is about to return "ColumnNameID"
C1_Witness ==
    \E p \in Procs :
        /\ pc[p] = "tc_ret"
        /\ n[p] = <<99, 111, 108, 117, 109, 110, 95, 110, 97, 109, 101, 95, 105, 100>>
        /\ ret[p] = <<67, 111, 108, 117, 109, 110, 78, 97, 109, 101, 73, 68>>

TCUsesBuf(p) == pc[p] \in {"tc_scan", "tc_put"}

InTitleCase(p) ==
    pc[p] \in {"tc_rlock", "tc_lookup", "tc_runlock", "tc_hit", "tc_get", "tc_scan",
               "tc_put", "tc_lock", "tc_store", "tc_unlock", "tc_ret"}

OuterUsesBuf(p) ==
    \/ pc[p] \in {"cc_strip", "cc_split", "cc_append", "cc_string", "cc_put",
                  "tci_loop", "tci_write", "tci_put", "tci_string"}
    \/ InTitleCase(p) /\ retpc[p] \in {"cc_append", "tci_write"}

BufsInUse(p) ==
    (IF TCUsesBuf(p) THEN {tbuf[p]} ELSE {}) \cup (IF OuterUsesBuf(p) THEN {obuf[p]} ELSE {})

\* C3: from its acquisition to the call's last read or write of it, a scratch
\* buffer belongs to the acquiring call alone (it is not idle in the pool, where
\* a concurrent call can acquire and reset it, and no other call uses it), and
\* a call that has returned has released every buffer it acquired.
C3_BufferOwnership ==
    /\ \A p \in Procs : \A b \in BufsInUse(p) :
          /\ b \notin pool
          /\ b \in held[p]
          /\ \A q \in Procs \ {p} : b \notin BufsInUse(q)
    /\ \A p \in Procs : pc[p] = "idle" => held[p] = {}
    /\ \A p \in Procs : pool \cap held[p] = {}

\* C4: CamelCase strips the leading underscores, returns "" when nothing is
\* left, the rest verbatim when it holds no underscore, and otherwise the part
\* before the first underscore verbatim followed by what TitleCase returned for
\* the part after it; "var_name_id" gives "varNameID", "___" gives "",
\* "noUnderscore" gives "noUnderscore".
C4_CamelCase ==
    \A p \in Procs :
        pc[p] = "idle" /\ op[p] = "CamelCase" =>
            LET rest  == RefStrip(arg[p])
                first == TakeUntil(rest, {95})
            IN  /\ rest = <<>> => result[p] = <<>>
                /\ rest # <<>> /\ first = rest => result[p] = rest
                /\ rest # <<>> /\ first # rest =>
                      /\ \E r \in returned :
                            /\ r[1] = SubSeq(rest, Len(first) + 2, Len(rest))
                            /\ result[p] = first \o r[2]
                      /\ result[p] = first \o RefTitleCase(SubSeq(rest, Len(first) + 2, Len(rest)))
                /\ arg[p] = <<118, 97, 114, 95, 110, 97, 109, 101, 95, 105, 100>>
                      => result[p] = <<118, 97, 114, 78, 97, 109, 101, 73, 68>>
                /\ arg[p] = <<95, 95, 95>> => result[p] = <<>>
                /\ arg[p] = <<110, 111, 85, 110, 100, 101, 114, 115, 99, 111, 114, 101>>
                      => result[p] = arg[p]

\* CamelCase("var_name_id") has returned "varNameID"
C4_Witness ==
    \E p \in Procs :
        /\ pc[p] = "idle"
        /\ op[p] = "CamelCase"
        /\ arg[p] = <<118, 97, 114, 95, 110, 97, 109, 101, 95, 105, 100>>
        /\ result[p] = <<118, 97, 114, 78, 97, 109, 101, 73, 68>>

\* C5: TitleCaseIdentifier returns its input split on '.', every fragment
\* passed through TitleCase, rejoined with '.', so the number of dot-separated
\* components is kept, empty and "*" components included.
C5_SplitMapJoin ==
    \A p \in Procs :
        pc[p] = "idle" /\ op[p] = "TitleCaseIdentifier" =>
            result[p] = RefTitleCaseIdentifier(arg[p])

\* C6 as stated: TitleCase("xyz") returns "XYZ"
C6_Original ==
    \A p \in Procs :
        pc[p] = "tc_ret" /\ n[p] = <<120, 121, 122>> => ret[p] = <<88, 89, 90>>

\* C6, amended: TitleCase("xyz") returns "Xyz": y counts as a vowel, so the
\* word has a vowel, is not in the uppercase-token set, and only its first
\* byte is uppercased.
C6_Amended ==
    \A p \in Procs :
        pc[p] = "tc_ret" /\ n[p] = <<120, 121, 122>> => ret[p] = <<88, 121, 122>>

\* a miss on "xyz" is about to return
C6_Witness ==
    \E p \in Procs : pc[p] = "tc_ret" /\ n[p] = <<120, 121, 122>> /\ op[p] = "TitleCase"

\* no slice or index expression of the core is out of range, and the word the
\* two-cursor scan cuts out is never empty
ScanSafe ==
    \A p \in Procs :
        /\ pc[p] # "panic"
        /\ AtWord(p) => 0 <= start[p] /\ start[p] < end[p] /\ end[p] <= Len(n[p])
        /\ pc[p] = "tc_scan" => 0 <= start[p] /\ 0 <= end[p]
        /\ pc[p] = "tci_loop" =>
              0 <= lastDot[p] /\ lastDot[p] <= nextDot[p] /\ nextDot[p] <= Len(arg[p])

\* C7: the core is total: for every input over letters, digits, '_' and '.'
\* no slice or index is out of range, the scan never cuts out an empty word,
\* and every call of TitleCase, CamelCase and TitleCaseIdentifier returns.
C7_Total == []ScanSafe /\ <>(\A p \in Procs : pc[p] = "idle")

\* the scan of "__i_" has skipped the leading underscores and is at the word
C7_Witness ==
    \E p \in Procs :
        /\ AtWord(p)
        /\ n[p] = <<95, 95, 105, 95>>
        /\ start[p] = 2

\* C8: Placeholders and WhereClause abort whenever start <= 0, and do not
\* abort when start > 0 (and, for Placeholders, group > 0).
C8_AbortOnNonPositiveStart ==
    \A p \in Procs :
        op[p] \in {"Placeholders", "WhereClause"} /\ pc[p] \in {"idle", "aborted"} =>
            /\ arg[p].start <= 0 => pc[p] = "aborted"
            /\ arg[p].start > 0 /\ (op[p] = "WhereClause" \/ arg[p].group > 0)
                  => pc[p] = "idle"

\* C9: StringSliceMatch(a, b) is true exactly when a and b have the same
\* length, every element of a occurs in b and every element of b occurs in a.
C9_SameElements ==
    \A p \in Procs :
        op[p] = "StringSliceMatch" /\ pc[p] = "idle" =>
            result[p] = (/\ Len(arg[p].a) = Len(arg[p].b)
                         /\ {arg[p].a[i] : i \in 1..Len(arg[p].a)}
                              = {arg[p].b[i] : i \in 1..Len(arg[p].b)})

\* C10: the map is read only under the read lock and written only under the
\* exclusive lock, the exclusive lock excludes every other holder, so no write
\* of titleCaseCache overlaps another call's read or write of it, and a lookup
\* that finds a key finds its finished string.
C10_LockDiscipline ==
    /\ \A p \in Procs : pc[p] \in {"tc_lookup", "tc_runlock"} => p \in readers
    /\ \A p \in Procs : pc[p] \in {"tc_store", "tc_unlock"} => writer = p
    /\ writer # 0 => readers = {}
    /\ \A p \in Procs : \A q \in Procs \ {p} :
          pc[p] = "tc_store" => pc[q] \notin {"tc_lookup", "tc_store"}
    /\ \A p \in Procs : pc[p] = "tc_runlock" /\ ok[p] => val[p] = RefTitleCase(n[p])

\* one goroutine is writing the map while another waits to read it
C10_Witness ==
    \E p \in Procs : \E q \in Procs \ {p} :
        /\ pc[p] = "tc_store"
        /\ pc[q] = "tc_rlock"
        /\ readers = {}

====
